---- MODULE Spec2Model ----
(***************************************************************************)
(* Model of gulpfile.babel.js: the ten gulp tasks, the two composite tasks *)
(* `default` and `deploy-prod` built with gulp.series, the five chokidar   *)
(* 'change' listeners registered by watchFiles, and the source and         *)
(* destination trees the pipelines read and write.                         *)
(***************************************************************************)
EXTENDS Integers, Sequences, FiniteSets, TLC

VARIABLES
  task,       \* the task the running gulp process was asked for, or "none"
  proc,       \* "none" | "running" | "exit0" | "exit1": the host process
  invoked,    \* number of gulp invocations so far
  started,    \* stages the top-level series has started, in order
  completed,  \* stages of the top-level series that signalled completion
  crun,       \* the stage run of the top-level series in progress, or NoRun
  result,     \* what the top-level series reported: "pending" | "ok" | "error"
  bindings,   \* stages with a 'change' listener registered by watchFiles
  server,     \* TRUE once browserSync.init was called
  wruns,      \* per binding, the listener runs in progress
  wstat,      \* per binding, counters of events and runs
  errs,       \* per stage, transform errors raised in this process
  sink,       \* per stage, failures handed to notify.onError in this process
  raised,     \* errors that left a stage (the task ended with an error)
  smtime,     \* source tree: mtime per source file, 0 = absent
  disk,       \* output tree: mtime per output path, 0 = absent
  writers,    \* per output path, the top-level stages that wrote it
  quiet       \* the stage whose top-level run was the last thing to happen and ended with no
              \* error and no change of the trees during it; "run" during such a run

vars == <<task, proc, invoked, started, completed, crun, result, bindings,
          server, wruns, wstat, errs, sink, raised, smtime, disk,
          writers, quiet>>

\* ------------------------------------------------------------------ bounds
MaxInvocations == 2
MaxTouches == 2
MaxErrors == 2
MaxConcurrent == 2

\* ------------------------------------------------------------------ stages
Stages == {"clean", "html", "styles", "lint", "scripts", "images",
           "exportWebp", "fonts", "watchFiles", "browser"}

\* stages that are a gulp.src(...).pipe(...) stream
StreamStages == {"html", "styles", "lint", "scripts", "images", "exportWebp", "fonts"}

\* a default series that registers the watchers before the build
DefaultOrder_WatchFirst == <<"clean", "watchFiles", "html", "styles", "lint", "scripts",
                             "images", "exportWebp", "fonts", "browser">>

\* a default series that starts the server before the watchers
DefaultOrder_BrowserFirst == <<"clean", "html", "styles", "lint", "scripts", "images",
                               "exportWebp", "fonts", "browser", "watchFiles">>

DefaultOrder == <<"clean", "html", "styles", "lint", "scripts", "images",
                  "exportWebp", "fonts", "watchFiles", "browser">>

\* a deploy series that also builds the markup
DeployOrder_WithHtml == <<"clean", "html", "styles", "scripts", "images", "exportWebp", "fonts">>

DeployOrder == <<"clean", "styles", "scripts", "images", "exportWebp", "fonts">>

Composites == {"default", "deploy-prod"}

\* the exported tasks that can be asked for on their own
SingleTasks == {"html", "styles", "scripts", "images", "exportWebp", "fonts", "lint"}

Order(t) == IF t = "default" THEN DefaultOrder
            ELSE IF t = "deploy-prod" THEN DeployOrder
            ELSE <<t>>

WatchStages == {"styles", "scripts", "images", "fonts", "html"}

\* ------------------------------------------------------------------ paths
SrcFiles == {"index.html", "scss/main.scss", "js/main.js",
             "images/a.png", "images/a.webp", "fonts/f.woff"}

OptionalFiles == {"images/a.png", "images/a.webp"}

\* gulp.src globs, over the files of the source tree
Glob(s) ==
  CASE s = "html"       -> {"index.html"}
    [] s = "styles"     -> {"scss/main.scss"}
    [] s = "lint"       -> {"js/main.js"}
    [] s = "scripts"    -> {"js/main.js"}
    [] s = "images"     -> {"images/a.png", "images/a.webp"}
    [] s = "exportWebp" -> {"images/a.png"}
    [] s = "fonts"      -> {"fonts/f.woff"}
    [] OTHER            -> {}

\* the glob each watch(...) call observes
WatchGlob(b) ==
  CASE b = "styles"  -> {"scss/main.scss"}
    [] b = "scripts" -> {"js/main.js"}
    [] b = "images"  -> {"images/a.png", "images/a.webp"}
    [] b = "fonts"   -> {"fonts/f.woff"}
    [] b = "html"    -> {"index.html"}
    [] OTHER         -> {}

DistPaths == {"web/index.html", "web/css/main.scss", "web/css/main.min.css",
              "web/css/main.min.css.map", "web/js/main.js", "web/js/main.min.js",
              "web/js/main.min.js.map", "web/images/a.png", "web/images/a.webp",
              "web/fonts/f.woff"}

AppCssPaths == {"app/css/main.min.css", "app/css/main.min.css.map"}

OutPaths == DistPaths \cup AppCssPaths

\* the root a path lies under: "app" stands for APP_DIR, "web" for DIST_DIR
Root(p) == IF p \in DistPaths THEN "web" ELSE "app"

\* the directory of a path below its root, "." for the root itself
Dir(p) ==
  CASE p \in {"index.html", "web/index.html"} -> "."
    [] p = "scss/main.scss" -> "scss"
    [] p \in {"js/main.js", "web/js/main.js", "web/js/main.min.js",
              "web/js/main.min.js.map"} -> "js"
    [] p \in {"images/a.png", "images/a.webp", "web/images/a.png",
              "web/images/a.webp"} -> "images"
    [] p \in {"fonts/f.woff", "web/fonts/f.woff"} -> "fonts"
    [] OTHER -> "css"

IsHtml(p) == p \in {"index.html", "web/index.html"}

\* a watcher on the whole application directory
GlobMatches_AppRoot(b, p) == Root(p) = "app"

\* TRUE when the glob given to the watch(...) call of binding b matches path p:
\* APP_DIR/<dir>/**/* for styles, scripts, images and fonts, APP_DIR/*.html for html
GlobMatches(b, p) ==
  /\ Root(p) = "app"
  /\ CASE b = "styles"  -> Dir(p) = "scss"
       [] b = "scripts" -> Dir(p) = "js"
       [] b = "images"  -> Dir(p) = "images"
       [] b = "fonts"   -> Dir(p) = "fonts"
       [] b = "html"    -> Dir(p) = "." /\ IsHtml(p)
       [] OTHER         -> FALSE

\* stages whose stream has a changed(dest) step
HasFilter(s) == s \in {"html", "styles", "scripts", "images", "fonts"}

\* the path changed(dest) stats for a source file: dest + file.relative
FilterDest(s, f) ==
  CASE s = "html"    -> "web/index.html"
    [] s = "styles"  -> "web/css/main.scss"
    [] s = "scripts" -> "web/js/main.js"
    [] s = "images"  -> IF f = "images/a.png" THEN "web/images/a.png" ELSE "web/images/a.webp"
    [] s = "fonts"   -> "web/fonts/f.woff"
    [] OTHER         -> "web/index.html"

\* a lint stage that ends in gulp.dest(paths.scripts.dist)
Outputs_LintWrites(s, f) == {"web/js/main.js"}

\* the files written for a source file that went through the whole stream
Outputs(s, f) ==
  CASE s = "html"       -> {"web/index.html"}
    [] s = "styles"     -> {"app/css/main.min.css", "app/css/main.min.css.map",
                            "web/css/main.min.css", "web/css/main.min.css.map"}
    [] s = "scripts"    -> {"web/js/main.min.js", "web/js/main.min.js.map"}
    [] s = "images"     -> {IF f = "images/a.png" THEN "web/images/a.png" ELSE "web/images/a.webp"}
    [] s = "exportWebp" -> {"web/images/a.webp"}
    [] s = "fonts"      -> {"web/fonts/f.woff"}
    [] OTHER            -> {}

\* outputs that are new files (no stat of the source): stamped with the time of the write
FreshStat == {"web/js/main.min.js", "web/js/main.min.js.map",
              "web/css/main.min.css.map", "app/css/main.min.css.map"}

\* how each stage's stream treats an 'error' event
\*   "throws"    plumber handler notifies, then this.emit fails (arrow function)
\*   "ends"      plumber handler notifies, then ends the stream
\*   "continues" plumber handler notifies only
\*   "none"      no plumber in the stream
Boundary(s) ==
  CASE s \in {"html", "styles", "images", "exportWebp"} -> "throws"
    [] s = "lint"    -> "ends"
    [] s = "fonts"   -> "continues"
    [] OTHER         -> "none"

NoRun == [stage |-> "none", passed |-> {}]


\* ------------------------------------------------------------------ change filter
\* a filter that rebuilds on equal times
IsStale_TieStale(s, f) == disk[FilterDest(s, f)] = 0 \/ smtime[f] >= disk[FilterDest(s, f)]

\* changed(dest): a file goes on when dest/relative is absent or older than the source
IsStale(s, f) == disk[FilterDest(s, f)] = 0 \/ smtime[f] > disk[FilterDest(s, f)]

\* the files gulp.src reads: the glob's matches that exist
Sources(s) == {f \in Glob(s) : smtime[f] > 0}

\* the files, each with the mtime of its stat, that reach the transforms of stage s
Passed(s) ==
  {<<f, smtime[f]>> : f \in IF HasFilter(s) THEN {g \in Sources(s) : IsStale(s, g)}
                             ELSE Sources(s)}

\* Times are counted per source file: the mtime of a file, and of what is made
\* from it, is the number of the file's version, 1 for the file as first seen.
\* gulp.dest: the outputs of the files W of stage s, stamped with the mtime of the
\* stat read by gulp.src when the vinyl file keeps its stat, and with the time of
\* the write (the source's version by then) otherwise
Written(s, W) == UNION {Outputs(s, w[1]) : w \in W}

Dest(d, s, W) ==
  [p \in OutPaths |->
     IF p \in Written(s, W)
     THEN LET w == CHOOSE v \in W : p \in Outputs(s, v[1]) IN
            IF p \in FreshStat THEN smtime[w[1]] ELSE w[2]
     ELSE d[p]]

\* del(DIST_DIR): everything under ./web is removed
Del(d) == [p \in OutPaths |-> IF p \in DistPaths THEN 0 ELSE d[p]]

\* ------------------------------------------------------------------ error boundary
\* TRUE when an 'error' event of stage s reaches notify.onError
Notifies(s) == Boundary(s) # "none"

\* TRUE when an 'error' event of stage s ends the task with an error: with no
\* plumber the event has no listener; in the arrow-function handlers `this` is not
\* the stream, so this.emit('end') throws once notify.onError has been called
Escapes(s) == Boundary(s) \in {"throws", "none"}

\* a failing run that still emits the output of the file that failed
Partial_EmitsFailed(s, P, e) == {P}

\* the sets of files that can have been written when file e of P fails: the other
\* files when the stream goes on, any of the other files when the stream stops
\* (webpack in production mode emits no asset of a compilation with errors)
Partial(s, P, e) ==
  CASE Boundary(s) = "continues" -> {P \ {e}}
    [] Boundary(s) = "ends"      -> {{}}
    [] OTHER                     -> SUBSET (P \ {e})

TotalErrs == errs["html"] + errs["styles"] + errs["lint"] + errs["scripts"]
             + errs["images"] + errs["exportWebp"] + errs["fonts"]

ZeroStat == [idle |-> 0, mid |-> 0, runs |-> 0, done |-> 0, reloads |-> 0]

\* ------------------------------------------------------------------ initial state
Init ==
  /\ task = "none"
  /\ proc = "none"
  /\ invoked = 0
  /\ started = <<>>
  /\ completed = <<>>
  /\ crun = NoRun
  /\ result = "pending"
  /\ bindings = {}
  /\ server = FALSE
  /\ wruns = [b \in WatchStages |-> <<>>]
  /\ wstat = [b \in WatchStages |-> ZeroStat]
  /\ errs = [s \in StreamStages |-> 0]
  /\ sink = [s \in StreamStages |-> 0]
  /\ raised = 0
  /\ \E present \in SUBSET OptionalFiles :
       smtime = [f \in SrcFiles |-> IF f \in OptionalFiles /\ f \notin present THEN 0 ELSE 1]
  /\ disk = [p \in OutPaths |-> 0]
  /\ writers = [p \in OutPaths |-> {}]
  /\ quiet = "none"

\* ------------------------------------------------------------------ the gulp process
\* `gulp <t>`: a fresh process runs the task t
Invoke(t) ==
  /\ proc # "running"
  /\ invoked < MaxInvocations
  /\ task' = t
  /\ proc' = "running"
  /\ invoked' = invoked + 1
  /\ started' = <<>>
  /\ completed' = <<>>
  /\ crun' = NoRun
  /\ result' = "pending"
  /\ bindings' = {}
  /\ server' = FALSE
  /\ wruns' = [b \in WatchStages |-> <<>>]
  /\ wstat' = [b \in WatchStages |-> ZeroStat]
  /\ errs' = [s \in StreamStages |-> 0]
  /\ sink' = [s \in StreamStages |-> 0]
  /\ raised' = 0
  /\ writers' = [p \in OutPaths |-> {}]
  /\ UNCHANGED <<smtime, disk, quiet>>

\* a series that does not wait for the task in progress
SeriesReady_NoWait == TRUE

\* gulp.series: the next task is called once the one before it signalled completion
SeriesReady == crun = NoRun /\ Len(completed) = Len(started)

StartStage ==
  /\ proc = "running"
  /\ result = "pending"
  /\ SeriesReady
  /\ Len(started) < Len(Order(task))
  /\ LET s == Order(task)[Len(started) + 1] IN
       /\ started' = Append(started, s)
       /\ crun' = [stage |-> s, passed |-> IF s \in StreamStages THEN Passed(s) ELSE {}]
       /\ bindings' = IF s = "watchFiles" THEN WatchStages ELSE bindings
       /\ server' = IF s = "browser" THEN TRUE ELSE server
       /\ quiet' = IF s \in StreamStages THEN "run" ELSE IF s = "clean" THEN "none" ELSE quiet
  /\ UNCHANGED <<task, proc, invoked, completed, result, wruns, wstat, errs, sink,
                 raised, smtime, disk, writers>>

\* the series after task s signalled completion without an error
Signal(s) ==
  /\ completed' = Append(completed, s)
  /\ crun' = NoRun
  /\ IF Len(completed) + 1 = Len(Order(task))
     THEN result' = "ok" /\ proc' = "exit0"
     ELSE UNCHANGED <<result, proc>>

\* the series after task s ended with an error: gulp.series runs no further task
\* and the gulp command exits with status 1
Abort ==
  /\ crun' = NoRun
  /\ result' = "error"
  /\ proc' = "exit1"
  /\ UNCHANGED completed

\* clean's promise resolves, watchFiles' done() is called
FinishPlain ==
  /\ proc = "running"
  /\ crun.stage \in {"clean", "watchFiles"}
  /\ Signal(crun.stage)
  /\ disk' = IF crun.stage = "clean" THEN Del(disk) ELSE disk
  /\ quiet' = IF crun.stage = "clean" THEN "none" ELSE quiet
  /\ UNCHANGED <<task, invoked, started, bindings, server, wruns, wstat, errs, sink,
                 raised, smtime, writers>>

\* the bindings whose watcher emits 'change' when stage s writes the outputs of
\* the files W: a write to an existing path that the binding's glob matches
Events(s, W) ==
  {b \in bindings : \E p \in Written(s, W) : disk[p] > 0 /\ GlobMatches(b, p)}

\* the listeners of the bindings E are called, on top of the runs rw counted in rs
Notify(rw, rs, E) ==
  /\ wruns' = [x \in WatchStages |->
        IF x \in E THEN Append(rw[x], [passed |-> Passed(x)']) ELSE rw[x]]
  /\ wstat' = [x \in WatchStages |->
        IF x \in E
        THEN [rs[x] EXCEPT !.idle = IF rw[x] = <<>> THEN @ + 1 ELSE @,
                           !.mid = IF rw[x] = <<>> THEN @ ELSE @ + 1,
                           !.runs = @ + 1]
        ELSE rs[x]]

Mark(w, s, W) == [p \in OutPaths |-> IF p \in Written(s, W) THEN w[p] \cup {s} ELSE w[p]]

\* a stream task ends: every file that passed the filter went through
FinishOk ==
  /\ proc = "running"
  /\ crun.stage \in StreamStages
  /\ LET s == crun.stage IN
       /\ Signal(s)
       /\ disk' = Dest(disk, s, crun.passed)
       /\ writers' = Mark(writers, s, crun.passed)
       /\ quiet' = IF quiet = "run" THEN s ELSE "none"
       /\ UNCHANGED smtime
       /\ Notify(wruns, wstat, Events(s, crun.passed))
  /\ UNCHANGED <<task, invoked, started, bindings, server, errs, sink, raised>>

\* a transform of a stream task emits 'error' on one of the files
FinishError ==
  /\ proc = "running"
  /\ crun.stage \in StreamStages
  /\ TotalErrs < MaxErrors
  /\ LET s == crun.stage IN
     \E e \in crun.passed : \E W \in Partial(s, crun.passed, e) :
       /\ errs' = [errs EXCEPT ![s] = @ + 1]
       /\ sink' = [sink EXCEPT ![s] = IF Notifies(s) THEN @ + 1 ELSE @]
       /\ raised' = IF Escapes(s) THEN raised + 1 ELSE raised
       /\ IF Escapes(s) THEN Abort ELSE Signal(s)
       /\ disk' = Dest(disk, s, W)
       /\ writers' = Mark(writers, s, W)
       /\ UNCHANGED smtime
       /\ Notify(wruns, wstat, Events(s, W))
  /\ quiet' = "none"
  /\ UNCHANGED <<task, invoked, started, bindings, server>>

\* ------------------------------------------------------------------ watch session
\* one watcher for every glob
BindingOf_Shared(f) == "styles"

\* the binding whose watch(...) glob matches source file f
BindingOf(f) == CHOOSE b \in WatchStages : f \in WatchGlob(b)

\* a listener that drops the runs in progress when a new event arrives
Listener_Preempt(b) ==
  /\ wruns' = [wruns EXCEPT ![b] = <<[passed |-> Passed(b)']>>]
  /\ wstat' = [wstat EXCEPT ![b] =
        [@ EXCEPT !.idle = IF wruns[b] = <<>> THEN @ + 1 ELSE @,
                  !.mid = IF wruns[b] = <<>> THEN @ ELSE @ + 1,
                  !.runs = @ + 1]]

\* the 'change' listener series(stage, browserSync.reload) is called: the stage starts
Listener(b) ==
  /\ wruns' = [wruns EXCEPT ![b] = Append(@, [passed |-> Passed(b)'])]
  /\ wstat' = [wstat EXCEPT ![b] =
        [@ EXCEPT !.idle = IF wruns[b] = <<>> THEN @ + 1 ELSE @,
                  !.mid = IF wruns[b] = <<>> THEN @ ELSE @ + 1,
                  !.runs = @ + 1]]

\* the number of modifications of source files so far
Touches ==
  LET n(f) == IF smtime[f] = 0 THEN 0 ELSE smtime[f] - 1 IN
    n("index.html") + n("scss/main.scss") + n("js/main.js") + n("images/a.png")
    + n("images/a.webp") + n("fonts/f.woff")

\* a source file is modified; chokidar emits 'change' when a watcher matches it
Touch(f) ==
  /\ smtime[f] > 0
  /\ Touches < MaxTouches
  /\ smtime' = [smtime EXCEPT ![f] = @ + 1]
  /\ quiet' = "none"
  /\ UNCHANGED disk
  /\ IF proc = "running" /\ BindingOf(f) \in bindings
     THEN /\ Len(wruns[BindingOf(f)]) < MaxConcurrent
          /\ Listener(BindingOf(f))
     ELSE UNCHANGED <<wruns, wstat>>
  /\ UNCHANGED <<task, proc, invoked, started, completed, crun, result, bindings,
                 server, errs, sink, raised, writers>>

Remove(q, i) == SubSeq(q, 1, i - 1) \o SubSeq(q, i + 1, Len(q))

\* the stage of a listener run ends without an error: the series calls
\* browserSync.reload (which does not call the callback it is given, so the series
\* itself reports nothing more; its callback is the listener's unused argument)
WatchOk(b, i) ==
  /\ proc = "running"
  /\ i \in 1..Len(wruns[b])
  /\ disk' = Dest(disk, b, wruns[b][i].passed)
  /\ UNCHANGED smtime
  /\ Notify([wruns EXCEPT ![b] = Remove(@, i)],
            [wstat EXCEPT ![b] = [@ EXCEPT !.done = @ + 1, !.reloads = @ + 1]],
            Events(b, wruns[b][i].passed))
  /\ quiet' = "none"
  /\ UNCHANGED <<task, proc, invoked, started, completed, crun, result, bindings,
                 server, errs, sink, raised, writers>>

\* a transform of a listener run emits 'error' on one of the files
WatchError(b, i) ==
  /\ proc = "running"
  /\ i \in 1..Len(wruns[b])
  /\ TotalErrs < MaxErrors
  /\ \E e \in wruns[b][i].passed : \E W \in Partial(b, wruns[b][i].passed, e) :
       /\ disk' = Dest(disk, b, W)
       /\ errs' = [errs EXCEPT ![b] = @ + 1]
       /\ sink' = [sink EXCEPT ![b] = IF Notifies(b) THEN @ + 1 ELSE @]
       /\ raised' = IF Escapes(b) THEN raised + 1 ELSE raised
       /\ UNCHANGED smtime
       /\ Notify([wruns EXCEPT ![b] = Remove(@, i)],
                 [wstat EXCEPT ![b] =
                    [@ EXCEPT !.done = @ + 1,
                              !.reloads = IF Escapes(b) THEN @ ELSE @ + 1]],
                 Events(b, W))
  /\ quiet' = "none"
  /\ UNCHANGED <<task, proc, invoked, started, completed, crun, result, bindings,
                 server, writers>>

Next ==
  \/ \E t \in Composites \cup SingleTasks : Invoke(t)
  \/ StartStage
  \/ FinishPlain
  \/ FinishOk
  \/ FinishError
  \/ \E f \in SrcFiles : Touch(f)
  \/ \E b \in WatchStages : \E i \in 1..MaxConcurrent : WatchOk(b, i)
  \/ \E b \in WatchStages : \E i \in 1..MaxConcurrent : WatchError(b, i)

Spec == Init /\ [][Next]_vars

\* a stage run started by a listener ends: its streams finish or emit 'error'
RunEnds(b) == \E i \in 1..MaxConcurrent : WatchOk(b, i) \/ WatchError(b, i)

\* the behaviours in which every transform finishes
FairSpec == Spec /\ \A b \in WatchStages : WF_vars(RunEnds(b))

\* ------------------------------------------------------------------ properties
IsPrefix(a, b) == Len(a) <= Len(b) /\ \A i \in 1..Len(a) : a[i] = b[i]

Min(a, b) == IF a <= b THEN a ELSE b

ContentStages == {"html", "styles", "scripts", "images", "exportWebp", "fonts"}

\* C1: in a run of `default` the stages start in the order clean, html, styles,
\* lint, scripts, images, exportWebp, fonts, watchFiles, browser; a stage is
\* started only after the stage before it signalled completion; clean has
\* completed before any content stage starts.
C1_DefaultOrder ==
  task = "default" =>
    /\ IsPrefix(started, <<"clean", "html", "styles", "lint", "scripts", "images",
                           "exportWebp", "fonts", "watchFiles", "browser">>)
    /\ \A i \in 2..Len(started) :
         Len(completed) >= i - 1 /\ completed[i - 1] = started[i - 1]
    /\ (\E i \in 1..Len(started) : started[i] \in ContentStages) =>
         (Len(completed) >= 1 /\ completed[1] = "clean")

C1_Witness ==
  task = "default" /\ Len(started) = 10 /\ started[10] = "browser" /\ Len(completed) = 9

\* C2: in a run of `deploy-prod` the stages run one after the other in the order
\* clean, styles, scripts, images, exportWebp, fonts; html, lint, watchFiles and
\* browser are never started, no watch binding exists, and the composite reports
\* completion only after fonts has finished.
C2_DeployOrder ==
  task = "deploy-prod" =>
    /\ IsPrefix(started, <<"clean", "styles", "scripts", "images", "exportWebp", "fonts">>)
    /\ \A i \in 2..Len(started) :
         Len(completed) >= i - 1 /\ completed[i - 1] = started[i - 1]
    /\ \A i \in 1..Len(started) : started[i] \notin {"html", "lint", "watchFiles", "browser"}
    /\ bindings = {} /\ ~server /\ \A b \in WatchStages : wruns[b] = <<>>
    /\ result = "ok" => (Len(completed) = 6 /\ completed[6] = "fonts")

C2_Witness ==
  task = "deploy-prod" /\ result = "ok" /\ proc = "exit0" /\ Len(started) = 6

\* C3: no watch binding ever has two runs of its stage in progress at the same
\* time.
C3_NoOverlap == \A b \in WatchStages : Len(wruns[b]) <= 1

\* C4: change events that arrive while a run of a binding is in progress are
\* coalesced: besides the runs started by an event that found the binding idle,
\* at most one run starts per completed run, and only when an event arrived
\* during a run (one event plus three during the run give two runs, not four).
C4_Coalesced ==
  \A b \in WatchStages :
    wstat[b].runs <= wstat[b].idle + Min(wstat[b].mid, wstat[b].done)

\* C5: a transform error raised while a stage runs is recovered at the stage
\* boundary: it never leaves the stage as an error of the task, and the host
\* process is never terminated by it.
C5_Recovered == raised = 0 /\ proc # "exit1"

\* C6: every transform error raised during a run of a stage results in exactly
\* one failure event delivered to the error sink.
C6_OneFailureEvent == \A s \in StreamStages : sink[s] = errs[s]

\* C7: in `default` and `deploy-prod` a failure of one stage does not keep the
\* stages after it from being started: a composite in which a transform error
\* occurred has not ended before every one of its stages was started.
C7_SuccessorsRun ==
  (task \in Composites /\ TotalErrs > 0 /\ proc # "running") =>
    Len(started) = Len(Order(task))

\* C8: a pipeline run right after a successful run of the same pipeline, with no
\* source change in between, passes no file to its transforms and so writes
\* nothing.
C8_Idempotent ==
  [][\A s \in ContentStages :
       (quiet = s /\ crun.stage = "none" /\ crun'.stage = s) => crun'.passed = {}]_vars

\* the three cases of the change filter: source f of stage s with mtime m, `goes`
\* telling whether it reached the transforms
FilterCases(s, f, m, goes) ==
  LET d == FilterDest(s, f) IN
    /\ disk[d] = 0 => goes
    /\ (disk[d] > 0 /\ m <= disk[d]) => ~goes
    /\ (disk[d] > 0 /\ m > disk[d]) => goes

\* C9: a source file that goes through a stage's change filter is passed on
\* (STALE) when the mapped destination file is absent, dropped (FRESH) when the
\* destination exists and is not older than the source, equal times included,
\* and passed on when the destination exists and is older.
C9_ChangeFilter ==
  [][/\ \A s \in {"html", "styles", "scripts", "images", "fonts"} : \A f \in Glob(s) :
          (crun.stage = "none" /\ crun'.stage = s /\ smtime[f] > 0) =>
            FilterCases(s, f, smtime[f], <<f, smtime[f]>> \in crun'.passed)
     /\ \A b \in WatchStages : \A f \in Glob(b) :
          (Len(wruns'[b]) = Len(wruns[b]) + 1 /\ smtime'[f] > 0) =>
            FilterCases(b, f, smtime'[f],
                        <<f, smtime'[f]>> \in wruns'[b][Len(wruns'[b])].passed)]_vars

C9_Witness ==
  /\ crun.stage = "images"
  /\ smtime["images/a.png"] > 0 /\ smtime["images/a.webp"] > 0
  /\ disk["web/images/a.png"] = smtime["images/a.png"]
  /\ disk["web/images/a.webp"] > 0
  /\ smtime["images/a.webp"] > disk["web/images/a.webp"]
  /\ crun.passed = {<<"images/a.webp", smtime["images/a.webp"]>>}

\* C10: within one run of `default` or `deploy-prod` every destination path is
\* written by at most one stage.
C10_SingleWriter ==
  task \in Composites => \A p \in OutPaths : Cardinality(writers[p]) <= 1

\* C11: every run started by a change event invokes browserSync.reload exactly
\* once, after the stage of the run has ended, whether the stage succeeded or
\* failed: the runs that have ended and the reloads invoked are equal in number.
C11_ReloadOnce == \A b \in WatchStages : wstat[b].reloads = wstat[b].done

\* C12: watch bindings are independent: a change of a file of binding y's glob
\* can happen and starts a run of y whatever the other bindings are doing, and
\* neither that event nor the end of a run of y changes the runs or the
\* counters of any other binding x.
C12_Independent ==
  /\ [](\A y \in WatchStages : \A f \in WatchGlob(y) :
          (proc = "running" /\ y \in bindings /\ smtime[f] > 0
           /\ Touches < MaxTouches /\ Len(wruns[y]) < MaxConcurrent) => ENABLED Touch(f))
  /\ [][\A y \in WatchStages :
          /\ \A f \in WatchGlob(y) :
               (proc = "running" /\ y \in bindings /\ smtime'[f] # smtime[f]) =>
                 /\ Len(wruns'[y]) = Len(wruns[y]) + 1
                 /\ wstat'[y].runs = wstat[y].runs + 1
          /\ (wruns'[y] # wruns[y] \/ wstat'[y] # wstat[y]) =>
               \A x \in WatchStages \ {y} : wruns'[x] = wruns[x] /\ wstat'[x] = wstat[x]]_vars

C12_Witness ==
  /\ Len(wruns["styles"]) = 1
  /\ Len(wruns["fonts"]) = 1
  /\ wstat["fonts"].idle = 1

\* C13: a run of scripts whose transform fails leaves the scripts destination
\* directory as it was: no main.min.js and no sourcemap is written by that run.
ScriptsDist == {"web/js/main.js", "web/js/main.min.js", "web/js/main.min.js.map"}

C13_ScriptsFailureWritesNothing ==
  [][errs'["scripts"] = errs["scripts"] + 1 =>
       \A p \in ScriptsDist : disk'[p] = disk[p]]_vars

C13_Witness ==
  /\ errs["scripts"] = 1
  /\ wstat["scripts"].done = 1
  /\ disk["web/js/main.min.js"] > 0
  /\ disk["web/js/main.min.js"] < smtime["js/main.js"]

\* C14: a run started by a change event is never cancelled or preempted by a
\* later change event; when every transform finishes, the stage of the run ends
\* and the binding gets back to having no run in progress, where the next change
\* of one of its files starts a fresh run.
C14_RunsComplete ==
  /\ [][\A b \in WatchStages : smtime' # smtime => IsPrefix(wruns[b], wruns'[b])]_vars
  /\ \A b \in WatchStages : (wruns[b] # <<>>) ~> (wruns[b] = <<>>)
  /\ [](\A b \in WatchStages : \A f \in WatchGlob(b) :
          (proc = "running" /\ b \in bindings /\ wstat[b].done > 0 /\ wruns[b] = <<>>
           /\ smtime[f] > 0 /\ Touches < MaxTouches) => ENABLED Touch(f))

C14_Witness ==
  /\ wstat["html"].idle = 1
  /\ wstat["html"].mid = 1
  /\ wstat["html"].done = 2
  /\ wruns["html"] = <<>>

\* the stages whose pipeline has an error handler
Handled == {s \in StreamStages : Boundary(s) # "none"}

\* C15: in every stage that has an error handler, a transform error is delivered
\* to the error sink once and the handler raises no error of its own; the runs
\* of the other stages are left as they are.
C15_UniformBoundary ==
  [][\A s \in Handled :
       errs'[s] = errs[s] + 1 =>
         /\ sink'[s] = sink[s] + 1
         /\ raised' = raised
         /\ \A x \in WatchStages \ {s} : wruns'[x] = wruns[x]]_vars

\* clean and the stages of the initial build
BuildStages == {"clean", "html", "styles", "lint", "scripts", "images", "exportWebp", "fonts"}

\* C16: in a run of `default`, a watch binding exists and a listener run has
\* started only when clean and the seven stages of the initial build have all
\* completed; while a binding exists or a listener run is in progress, neither
\* clean nor a stage of the initial build is running.
C16_WatchAfterBuild ==
  /\ []((task = "default"
         /\ (bindings # {} \/ \E b \in WatchStages : wstat[b].runs > 0 \/ wruns[b] # <<>>)) =>
          /\ \A s \in BuildStages : \E i \in 1..Len(completed) : completed[i] = s
          /\ crun.stage \notin BuildStages)
  /\ [][(task = "default" /\ bindings # {}) =>
          \A p \in DistPaths : disk[p] > 0 => disk'[p] > 0]_vars

C16_Witness ==
  /\ task = "default"
  /\ Len(wruns["images"]) = 1
  /\ wstat["images"].runs = 1
  /\ server

\* C17: no path a stage writes is matched by the glob of a watch binding, so the
\* writes of a run start no run: the number of runs a binding has started grows
\* only in a step that modifies a source file, and once the modifications of
\* source files have stopped, every binding ends up with no run in progress for
\* good.
C17_NoFeedback ==
  /\ [](/\ \A b \in WatchStages : WatchGlob(b) = {f \in SrcFiles : GlobMatches(b, f)}
        /\ \A s \in StreamStages : \A f \in SrcFiles : \A p \in Outputs(s, f) :
             \A b \in WatchStages : ~GlobMatches(b, p))
  /\ [][\A b \in WatchStages :
          smtime' = smtime =>
            /\ wstat'[b].runs <= wstat[b].runs
            /\ Len(wruns'[b]) <= Len(wruns[b])]_vars
  /\ <>[](\A b \in WatchStages : wruns[b] = <<>>)

C17_Witness ==
  /\ wstat["styles"].done = 2
  /\ wstat["styles"].runs = 2
  /\ wruns["styles"] = <<>>
  /\ disk["app/css/main.min.css"] = smtime["scss/main.scss"]
  /\ smtime["scss/main.scss"] > 1

\* C18: the bindings are none or the five of styles, scripts, images, fonts and
\* html together; watchFiles runs at most once in an invocation and all five
\* exist when it has signalled completion; the static server is started only
\* after watchFiles completed, with the five bindings in place; while the
\* process runs no binding is removed.
C18_FiveBindings ==
  /\ [](/\ bindings \in {{}, {"styles", "scripts", "images", "fonts", "html"}}
        /\ Cardinality({i \in 1..Len(started) : started[i] = "watchFiles"}) <= 1
        /\ (\E i \in 1..Len(completed) : completed[i] = "watchFiles") =>
             Cardinality(bindings) = Cardinality(WatchStages)
        /\ (server \/ \E i \in 1..Len(started) : started[i] = "browser") =>
             /\ \E j \in 1..Len(completed) : completed[j] = "watchFiles"
             /\ bindings = {"styles", "scripts", "images", "fonts", "html"})
  /\ [][bindings \subseteq bindings' \/ proc # "running"]_vars

C18_Witness ==
  /\ server
  /\ bindings = {"styles", "scripts", "images", "fonts", "html"}
  /\ wstat["fonts"].done = 1

\* C19: a run of lint, whatever its outcome, leaves every path of the destination
\* tree as it was; lint has no watch binding and is started at most once in a
\* run of `default`.
C19_LintWritesNothing ==
  /\ [][(crun.stage = "lint" \/ crun'.stage = "lint") => disk' = disk]_vars
  /\ [](/\ "lint" \notin bindings
        /\ "lint" \notin WatchStages
        /\ task = "default" =>
             Cardinality({i \in 1..Len(started) : started[i] = "lint"}) <= 1)

C19_Witness ==
  /\ task = "default"
  /\ errs["lint"] = 1
  /\ \E i \in 1..Len(completed) : completed[i] = "lint"
  /\ disk["web/index.html"] > 0
  /\ disk["web/js/main.js"] = 0

====
